---------------------------- MODULE Spec2Model ----------------------------
(***************************************************************************)
(* A model of taskcat: the TaskCat orchestrator (src/taskcat/taskcat.py),  *)
(* its driver (src/tcat.py) and the boto3 ClientFactory                    *)
(* (src/taskcat/utils.py).                                                 *)
(*                                                                         *)
(* Text that the code inspects character by character (parameter values,   *)
(* generated passwords) is a sequence of character codes, as chr/ord give  *)
(* them.  A CloudFormation status is the sequence of its words, the        *)
(* underscores of the status string being the gaps between them.           *)
(***************************************************************************)
EXTENDS Integers, Sequences, FiniteSets, TLC

VARIABLES
    passlength,   \* SpecGen: the argument of genpassword
    genres,       \* SpecGen: what genpassword returned or raised
    rng,          \* state of the random generator behind random.sample
    cfg,          \* the parsed config.yml together with the published parameter files
    pc,           \* where the run is
    self,         \* the fields of the TaskCat object
    ti,           \* index in test_list of the for loop in progress
    ri,           \* index in get_test_region() of stackcreate's inner loop, 0 before define_tests
    stackname,    \* stackcreate's local stackname
    stackids,     \* stackcreate's local stackids, then the argument of get_stackstatus
    requests,     \* every request made of the remote stack service, in order
    exitmsg,      \* the argument of sys.exit, or the uncaught exception
    active_tests,          \* get_stackstatus: active_tests
    current_active_tests,  \* get_stackstatus: current_active_tests
    si,           \* get_stackstatus: index in stackids of the next stack, 0 at the while test
    rounds,       \* get_stackstatus: passes of the while loop begun
    settle,       \* remote: from its settle-th describe call on, every stack answers a
                  \* final status
    stackquery,   \* get_stackstatus: what stackcheck returned last
    described,    \* remote: the answer to the last describe_stacks
    roundlog,     \* history: for each stackcheck of the pass in progress, whether
                  \* describe raised, whether the status returned was
                  \* CREATE_IN_PROGRESS or DELETE_IN_PROGRESS, and the active
                  \* contribution returned
    terminal_at,  \* history: for each stack of stackids, the first pass of this
                  \* get_stackstatus call whose stackcheck returned active 0 for
                  \* it, 0 while there is none
    plan,         \* history: for each test stackcreate has begun, its stack name and
                  \* get_test_region() after define_tests
    launches,     \* history: the number of stackcreate calls begun
    yaml_file,    \* validate_yaml: the configuration file it is given
    run_tests,    \* validate_yaml: the list it returns
    args,         \* tcat: the command line
    logger,       \* ClientFactory: whether __init__ set self.logger
    clients,      \* ClientFactory: the cache self._clients
    lock,         \* ClientFactory: the holder of self._lock, or "free"
    made,         \* boto3: the number of sessions and clients constructed so far
    failures,     \* boto3: the number of constructions that raised so far
    tpc,          \* for each thread, where its get call is
    targs,        \* for each thread, the arguments of its get call
    tloc,         \* for each thread, the locals of its get call and of the
                  \* _create_session or _create_client it is in
    budget,       \* for each thread, the get calls it may still make
    calllog       \* history: the get calls that ended, in order

genVars == <<passlength, genres>>
runVarsButPc == <<cfg, launches, self, ti, ri, stackname, stackids, requests, exitmsg, plan>>
runVars == <<cfg, launches, pc, self, ti, ri, stackname, stackids, requests, exitmsg, plan>>
cacheVars == <<logger, clients, lock, made, failures, tpc, targs, tloc, budget, calllog>>
pollVars == <<active_tests, current_active_tests, si, rounds, settle, stackquery,
              described, roundlog, terminal_at>>
cliVars == <<yaml_file, run_tests, args>>
tcatVars == <<genVars, rng, runVars, pollVars, cliVars>>
vars == <<passlength, genres, rng, cfg, pc, self, ti, ri, stackname, stackids,
          requests, exitmsg, active_tests, current_active_tests, si, rounds,
          settle, stackquery, described, roundlog, terminal_at, plan, launches, yaml_file, run_tests, args, logger,
          clients, lock,
          made, failures, tpc, targs, tloc, budget, calllog>>

----------------------------------------------------------------------------
(* Bounds of the model *)

\* genpassword is tried on the lengths 0..MaxPassLen
MaxPassLen == 64
\* the random generator starts in one of NumSeeds states
NumSeeds == 2
\* every stack answers a final status from its MaxSettle-th describe call on at the latest
MaxSettle == 2
\* get_stackstatus is followed for MaxRounds passes of its while loop
MaxRounds == 3
\* a configuration file holds at most MaxTests tests
MaxTests == 2
\* stackcreate is called at most MaxLaunches times on one TaskCat object
MaxLaunches == 2
\* a thread makes at most MaxCalls get calls
MaxCalls == 2
\* at most MaxFailures constructions of a session or a client raise
MaxFailures == 4
\* get_stackstatus on its own is given at most MaxStacks stacks
MaxStacks == 2

----------------------------------------------------------------------------
(* Text *)

Range(a, b) == [i \in 1..(b - a) |-> a + i - 1]

Digits == 48..57
Upper == 65..90
Lower == 97..122
\* \w of the re module on a byte string
WordChars == Digits \cup Upper \cup Lower \cup {95}
Alphanumeric == Digits \cup Upper \cup Lower

Elems(s) == {s[i] : i \in 1..Len(s)}
Distinct(s) == \A i, j \in 1..Len(s) : i # j => s[i] # s[j]

\* "_genpass_"
GenpassLit == <<95, 103, 101, 110, 112, 97, 115, 115, 95>>

\* The matches of '\$\[\w+_genpass_\d{1,2}]' in v: <<i, j, nd>> with "$[" at i,
\* word characters up to j - 1, "_genpass_" at j, then nd digits and "]".
TokenMatches(v) ==
    {m \in {i \in 1..(Len(v) - 1) : v[i] = 36 /\ v[i + 1] = 91}
              \X (1..Len(v)) \X {1, 2} :
        LET i == m[1]
            j == m[2]
            nd == m[3]
        IN  /\ j >= i + 3
            /\ j + 9 + nd <= Len(v)
            /\ v[i] = 36
            /\ v[i + 1] = 91
            /\ \A k \in (i + 2)..(j - 1) : v[k] \in WordChars
            /\ SubSeq(v, j, j + 8) = GenpassLit
            /\ \A k \in (j + 9)..(j + 8 + nd) : v[k] \in Digits
            /\ v[j + 9 + nd] = 93}

\* re.search('\$\[\w+_genpass_\d{1,2}]', v) finds a match
TokenSearch(v) == TokenMatches(v) # {}

\* re.sub('[^0-9]', '', v): the digits of v
DigitsOnly(v) == SelectSeq(v, LAMBDA c : c \in Digits)

RECURSIVE DecimalValue(_)
DecimalValue(d) ==
    IF d = <<>> THEN 0
    ELSE 10 * DecimalValue(SubSeq(d, 1, Len(d) - 1)) + (d[Len(d)] - 48)

----------------------------------------------------------------------------
(* TaskCat.genpassword *)

\* map(chr, range(48, 57) + range(65, 90) + range(97, 120))
PasswordChars == Range(48, 57) \o Range(65, 90) \o Range(97, 120)

\* random.sample(population, k) with the generator in state r: k elements at
\* distinct positions of the population.
Sample(population, k, r) ==
    [i \in 1..k |-> population[((r + i - 1) % Len(population)) + 1]]

\* random.sample raises ValueError when k exceeds the population
genpassword(plen, r) ==
    IF plen > Len(PasswordChars)
    THEN [raised |-> TRUE, value |-> <<>>]
    ELSE [raised |-> FALSE, value |-> Sample(PasswordChars, plen, r)]

NoResult == [raised |-> FALSE, value |-> <<-1>>]


----------------------------------------------------------------------------
(* The configuration (config.yml) and the parameter files it names *)

East == "us-east-1"
West == "us-west-2"

\* The 'regions' key of a test or of global: absent, null, or a list
RegionsAbsent == [present |-> FALSE, null |-> FALSE, list |-> <<>>]
RegionsNull == [present |-> TRUE, null |-> TRUE, list |-> <<>>]
RegionsList(l) == [present |-> TRUE, null |-> FALSE, list |-> l]

TestDef(n, t, p, r) ==
    [name |-> n, template_file |-> t, parameter_input |-> p, regions |-> r]

Entry(k, v) == [ParameterKey |-> k, ParameterValue |-> v]

\* "$[alpha_genpass_8]"
TokenAlpha8 == <<36, 91, 97, 108, 112, 104, 97, 95, 103, 101, 110, 112, 97, 115, 115, 95, 56, 93>>
\* "$[a_genpass_12]"
TokenA12 == <<36, 91, 97, 95, 103, 101, 110, 112, 97, 115, 115, 95, 49, 50, 93>>
\* "x$[pw_genpass_5]y"
TokenInside5 == <<120, 36, 91, 112, 119, 95, 103, 101, 110, 112, 97, 115, 115, 95, 53, 93, 121>>
\* "$[_genpass_8]": no word character before _genpass_, not a token
NoName8 == <<36, 91, 95, 103, 101, 110, 112, 97, 115, 115, 95, 56, 93>>
\* "$[a_genpass_123]": three digits, not a token
ThreeDigits == <<36, 91, 97, 95, 103, 101, 110, 112, 97, 115, 115, 95, 49, 50, 51, 93>>
\* "plain"
Plain == <<112, 108, 97, 105, 110>>
\* "db1"
Db1 == <<100, 98, 49>>

\* A parameter file: valid JSON (a list of entries) or not
DocA == [valid |-> TRUE,
         entries |-> <<Entry("Pwd", TokenAlpha8), Entry("Name", Plain)>>]
DocB == [valid |-> TRUE,
         entries |-> <<Entry("DbName", Db1), Entry("Pwd", TokenA12),
                       Entry("Tag", TokenInside5), Entry("Raw", NoName8)>>]
DocC == [valid |-> TRUE,
         entries |-> <<Entry("Long", ThreeDigits)>>]
DocBad == [valid |-> FALSE, entries |-> <<>>]

\* global: the value of 'regions' and the number of keys of global whose name
\* contains 'region'; tests in the order of yaml's keys(); the parameter files
Config(g, nkeys, ts, ds) ==
    [global |-> [regions |-> g, region_keys |-> nkeys], tests |-> ts, docs |-> ds]

ConfigSet ==
    { \* one test in two regions
      Config(RegionsList(<<West>>), 1,
             <<TestDef("t1", "a.template", "a.json", RegionsList(<<East, West>>))>>,
             ("a.json" :> DocA)),
      \* an override, then a test that takes the global regions
      Config(RegionsList(<<West, East>>), 1,
             <<TestDef("t1", "a.template", "a.json", RegionsList(<<East>>)),
               TestDef("t2", "b.template", "b.json", RegionsAbsent)>>,
             ("a.json" :> DocA @@ "b.json" :> DocB)),
      \* an override, then a test whose regions key is null
      Config(RegionsList(<<West>>), 1,
             <<TestDef("t1", "b.template", "b.json", RegionsList(<<West, East>>)),
               TestDef("t2", "a.template", "c.json", RegionsNull)>>,
             ("b.json" :> DocB @@ "c.json" :> DocC)),
      \* two keys of global name a region
      Config(RegionsList(<<East>>), 2,
             <<TestDef("t1", "a.template", "c.json", RegionsAbsent)>>,
             ("c.json" :> DocC)),
      \* no region anywhere
      Config(RegionsList(<<>>), 1,
             <<TestDef("t1", "a.template", "a.json", RegionsAbsent)>>,
             ("a.json" :> DocA)),
      \* global regions is null
      Config(RegionsNull, 1,
             <<TestDef("t1", "a.template", "a.json", RegionsAbsent)>>,
             ("a.json" :> DocA)),
      \* a parameter file that is not JSON
      Config(RegionsList(<<West>>), 1,
             <<TestDef("t1", "a.template", "a.json", RegionsAbsent),
               TestDef("t2", "b.template", "bad.json", RegionsAbsent)>>,
             ("a.json" :> DocA @@ "bad.json" :> DocBad)) }

\* validate_yaml returns the names of the tests
TestList(c) == [i \in 1..Len(c.tests) |-> c.tests[i].name]

TestNamed(c, test) ==
    c.tests[CHOOSE i \in 1..Len(c.tests) : c.tests[i].name = test]

\* uuid4, cut to its first four characters
IdSet == {"a1b2", "c3d4"}

----------------------------------------------------------------------------
(* The TaskCat object *)

RECURSIVE Repeat(_, _)
Repeat(l, n) == IF n = 0 THEN <<>> ELSE l \o Repeat(l, n - 1)

\* __init__
NewTaskCat ==
    [capabilities |-> <<>>,
     test_region |-> <<>>,
     template_path |-> <<"not set">>,
     parameter_path |-> <<"not set">>,
     defult_region |-> West,
     template_file |-> "not set",
     parameter_file |-> "not set",
     use_global |-> FALSE]

\* get_s3_url: the address of the published object whose key holds `key`
get_s3_url(key) == <<"https://s3.amazonaws.com", key>>

\* get_global_region: the regions listed once for every key of global whose
\* name contains 'region'; with a null list the handler of TypeError reads
\* `namespace` before it is bound and raises in turn.
get_global_region(c) ==
    IF c.global.regions.null
    THEN [raised |-> TRUE, g_regions |-> <<>>, use_global |-> FALSE]
    ELSE [raised |-> FALSE,
          g_regions |-> Repeat(c.global.regions.list, c.global.region_keys),
          use_global |-> c.global.regions.list # <<>>]

\* set_test_region
set_test_region(obj, region_list) == [obj EXCEPT !.test_region = region_list]

\* define_tests(yamlc, test): the object afterwards, or raised
define_tests(obj, c, test) ==
    LET t == TestNamed(c, test)
        o1 == [obj EXCEPT !.template_file = t.template_file,
                          !.parameter_file = t.parameter_input,
                          !.template_path = get_s3_url(t.template_file),
                          !.parameter_path = get_s3_url(t.parameter_input)]
        g == get_global_region(c)
    IN  IF t.regions.present
        THEN [raised |-> FALSE,
              obj |-> IF ~t.regions.null
                      THEN set_test_region(o1, t.regions.list)
                      ELSE o1]
        ELSE IF g.raised
             THEN [raised |-> TRUE, obj |-> o1]
             ELSE [raised |-> FALSE,
                   obj |-> set_test_region(
                              [o1 EXCEPT !.use_global = @ \/ g.use_global],
                              g.g_regions)]


----------------------------------------------------------------------------
(* The Parameter Materializer inside stackcreate *)

\* the literal argument of genpassword in stackcreate
GenpassArg == 8

\* MaterializeKey without its re.search test: every value is replaced
MaterializeKeyAlways(m) ==
    IF ~m.raised
    THEN LET g == genpassword(GenpassArg, m.rng)
         IN  [raised |-> g.raised,
              entry |-> [m.entry EXCEPT !.ParameterValue = g.value],
              rng |-> m.rng + 1]
    ELSE m

\* MaterializeKey with re.search taken as a match of the whole value
MaterializeKeyWholeValue(m) ==
    IF /\ ~m.raised
       /\ \E t \in TokenMatches(m.entry.ParameterValue) :
             t[1] = 1 /\ t[2] + 9 + t[3] = Len(m.entry.ParameterValue)
    THEN LET g == genpassword(GenpassArg, m.rng)
         IN  [raised |-> g.raised,
              entry |-> [m.entry EXCEPT !.ParameterValue = g.value],
              rng |-> m.rng + 1]
    ELSE m

\* The body of `for keys in parmdict`: when the value holds a token, its
\* digits are computed by re.sub and dropped, and the value becomes
\* genpassword(8).
MaterializeKey(m) ==
    IF ~m.raised /\ TokenSearch(m.entry.ParameterValue)
    THEN LET g == genpassword(GenpassArg, m.rng)
         IN  [raised |-> g.raised,
              entry |-> [m.entry EXCEPT !.ParameterValue = g.value],
              rng |-> m.rng + 1]
    ELSE m

\* `for keys in parmdict`: once for ParameterKey, once for ParameterValue
MaterializeEntry(e, r) ==
    MaterializeKey(MaterializeKey([raised |-> FALSE, entry |-> e, rng |-> r]))

\* `for parmdict in s_parms`
RECURSIVE Materialize(_, _)
Materialize(entries, r) ==
    IF entries = <<>>
    THEN [raised |-> FALSE, parms |-> <<>>, rng |-> r]
    ELSE LET n == Len(entries)
             front == Materialize(SubSeq(entries, 1, n - 1), r)
             last == MaterializeEntry(entries[n], front.rng)
         IN  IF front.raised
             THEN front
             ELSE [raised |-> last.raised,
                   parms |-> Append(front.parms, last.entry),
                   rng |-> last.rng]

----------------------------------------------------------------------------
(* The run *)

NoExit == [kind |-> "none", text |-> "", arg |-> ""]
\* sys.exit(F + text % arg)
Fatal(text, arg) == [kind |-> "exit", text |-> text, arg |-> arg]
\* an exception nothing catches
Uncaught(name) == [kind |-> "exception", text |-> name, arg |-> ""]

\* sig, base64.b64decode("dENhVA==")
Sig == "tCaT"
\* the sprefix argument of stackcreate
Sprefix == "tag"

\* set_capabilities that appends nothing
set_capabilitiesDropped(obj, ability) == obj

\* set_capabilities: self.capabilities.append(ability)
set_capabilities(obj, ability) ==
    [obj EXCEPT !.capabilities = Append(@, ability)]

\* Each request is logged with whether the service accepted it
ValidateRequest(obj, ok) ==
    [op |-> "validate_template", ok |-> ok, region |-> obj.defult_region,
     TemplateURL |-> get_s3_url(obj.template_file)]

CreateRequest(obj, region, name, parms, ok) ==
    [op |-> "create_stack", ok |-> ok, region |-> region, StackName |-> name,
     DisableRollback |-> TRUE, TemplateURL |-> obj.template_path,
     Parameters |-> parms, Capabilities |-> obj.capabilities]

\* a create_stack request, with the stackcreate call that made it
InLaunch(n, q) == q @@ [launch |-> n]

\* the handlers without their sys.exit: the loop goes on
OnValidateErrorContinue(obj) == [pc |-> "validate_template", exitmsg |-> NoExit]
OnLaunchErrorContinue(obj) == [pc |-> "stackcreate", exitmsg |-> NoExit]

\* validate_template's `except Exception`: sys.exit
OnValidateError(obj) ==
    [pc |-> "exited", exitmsg |-> Fatal("Cannot validate", obj.template_file)]

\* stackcreate's `except Exception`: sys.exit
OnLaunchError(obj) ==
    [pc |-> "exited", exitmsg |-> Fatal("Cannot launch", obj.template_file)]

\* `stackids = [stackdata]` in place of the append
LaunchedOverwrite(ids, stackdata) == <<stackdata>>

\* stackids.append(stackdata)
Launched(ids, stackdata) == Append(ids, stackdata)

\* the StackId of the answer to create_stack: an ARN holding region and name
StackData(region, name) == [StackId |-> [region |-> region, stack_name |-> name]]

\* main calls validate_template, which loads the global regions first
ValidateTemplateBegin ==
    /\ pc = "main"
    /\ LET g == get_global_region(cfg)
       IN  IF g.raised
           THEN /\ pc' = "crashed"
                /\ exitmsg' = Uncaught("UnboundLocalError")
                /\ UNCHANGED <<self, ti>>
           ELSE /\ pc' = "validate_template"
                /\ self' = set_test_region(
                              [self EXCEPT !.use_global = @ \/ g.use_global],
                              g.g_regions)
                /\ ti' = 1
                /\ UNCHANGED exitmsg
    /\ UNCHANGED <<cfg, launches, plan, ri, stackname, stackids, requests, rng, genVars, cacheVars, cliVars, pollVars>>

\* One pass of validate_template's loop: define_tests, then the template is
\* validated twice; the first failure leaves through sys.exit.
ValidateTemplateTest ==
    /\ pc = "validate_template"
    /\ ti <= Len(TestList(cfg))
    /\ LET d == define_tests(self, cfg, TestList(cfg)[ti])
       IN  IF d.raised
           THEN /\ pc' = "crashed"
                /\ exitmsg' = Uncaught("UnboundLocalError")
                /\ self' = d.obj
                /\ UNCHANGED <<ti, requests>>
           ELSE /\ self' = d.obj
                /\ \E failed \in {0, 1, 2} :
                     /\ requests' = requests \o
                           [i \in 1..(IF failed = 1 THEN 1 ELSE 2) |->
                                ValidateRequest(d.obj, i # failed)]
                     /\ IF failed = 0
                        THEN /\ ti' = ti + 1
                             /\ UNCHANGED <<pc, exitmsg>>
                        ELSE LET h == OnValidateError(d.obj)
                             IN  /\ pc' = h.pc
                                 /\ exitmsg' = h.exitmsg
                                 /\ ti' = IF h.pc = "exited" THEN ti ELSE ti + 1
    /\ UNCHANGED <<cfg, launches, plan, ri, stackname, stackids, rng, genVars, cacheVars, cliVars, pollVars>>

\* validate_template returns and main calls validate_parameters
ValidateTemplateReturn ==
    /\ pc = "validate_template"
    /\ ti > Len(TestList(cfg))
    /\ pc' = "validate_parameters"
    /\ ti' = 1
    /\ UNCHANGED <<cfg, launches, plan, self, ri, stackname, stackids, requests, exitmsg, rng, genVars, cacheVars, cliVars, pollVars>>

\* One pass of validate_parameters' loop
ValidateParametersTest ==
    /\ pc = "validate_parameters"
    /\ ti <= Len(TestList(cfg))
    /\ LET d == define_tests(self, cfg, TestList(cfg)[ti])
       IN  /\ self' = d.obj
           /\ IF d.raised
              THEN /\ pc' = "crashed"
                   /\ exitmsg' = Uncaught("UnboundLocalError")
                   /\ UNCHANGED ti
              ELSE IF cfg.docs[d.obj.parameter_file].valid
                   THEN /\ ti' = ti + 1
                        /\ UNCHANGED <<pc, exitmsg>>
                   ELSE /\ pc' = "exited"
                        /\ exitmsg' = Fatal("Cannot validate", d.obj.parameter_file)
                        /\ UNCHANGED ti
    /\ UNCHANGED <<cfg, launches, plan, ri, stackname, stackids, requests, rng, genVars, cacheVars, cliVars, pollVars>>

ValidateParametersReturn ==
    /\ pc = "validate_parameters"
    /\ ti > Len(TestList(cfg))
    /\ pc' = "validated"
    /\ UNCHANGED <<cfg, launches, plan, self, ti, ri, stackname, stackids, requests, exitmsg, rng, genVars, cacheVars, cliVars, pollVars>>

\* stackcreate is entered, after the validations or without them
StackCreateBegin ==
    /\ pc \in {"main", "validated"}
    /\ pc' = "stackcreate"
    /\ stackids' = <<>>
    /\ self' = set_capabilities(self, "CAPABILITY_IAM")
    /\ ti' = 1
    /\ ri' = 0
    /\ launches' = launches + 1
    /\ UNCHANGED <<cfg, plan, stackname, requests, exitmsg, rng, genVars, cacheVars, cliVars, pollVars>>

\* stackcreate is called again on the same object, after it returned
StackCreateAgain ==
    /\ pc = "launched"
    /\ launches < MaxLaunches
    /\ pc' = "stackcreate"
    /\ stackids' = <<>>
    /\ self' = set_capabilities(self, "CAPABILITY_IAM")
    /\ ti' = 1
    /\ ri' = 0
    /\ launches' = launches + 1
    /\ UNCHANGED <<cfg, plan, stackname, requests, exitmsg, rng, genVars, cacheVars, cliVars, pollVars>>

\* The head of stackcreate's outer loop: the stack name and define_tests
StackCreateTest ==
    /\ pc = "stackcreate"
    /\ ti <= Len(TestList(cfg))
    /\ ri = 0
    /\ \E id \in IdSet :
          stackname' = <<Sig, Sprefix, TestList(cfg)[ti], id>>
    /\ LET d == define_tests(self, cfg, TestList(cfg)[ti])
       IN  /\ self' = d.obj
           /\ plan' = Append(plan, [test |-> TestList(cfg)[ti],
                                    stackname |-> stackname',
                                    regions |-> d.obj.test_region])
           /\ IF d.raised
              THEN /\ pc' = "crashed"
                   /\ exitmsg' = Uncaught("UnboundLocalError")
                   /\ UNCHANGED ri
              ELSE /\ ri' = 1
                   /\ UNCHANGED <<pc, exitmsg>>
    /\ UNCHANGED <<cfg, launches, ti, stackids, requests, rng, genVars, cacheVars, cliVars, pollVars>>

\* One pass of stackcreate's inner loop: the parameter file is fetched and
\* parsed, its tokens are materialized, and create_stack is called; any
\* exception leaves through sys.exit.
StackCreateRegion ==
    /\ pc = "stackcreate"
    /\ ri >= 1
    /\ ri <= Len(self.test_region)
    /\ LET region == self.test_region[ri]
           doc == cfg.docs[self.parameter_file]
           m == Materialize(doc.entries, rng)
           h == OnLaunchError(self)
       IN  IF ~doc.valid \/ m.raised
           THEN /\ pc' = h.pc
                /\ exitmsg' = h.exitmsg
                /\ ri' = IF h.pc = "exited" THEN ri ELSE ri + 1
                /\ rng' = IF doc.valid THEN m.rng ELSE rng
                /\ UNCHANGED <<stackids, requests>>
           ELSE /\ rng' = m.rng
                /\ \E created \in BOOLEAN :
                      /\ requests' = Append(requests,
                             InLaunch(launches,
                                 CreateRequest(self, region, stackname, m.parms, created)))
                      /\ IF created
                         THEN /\ stackids' = Launched(stackids, StackData(region, stackname))
                              /\ ri' = ri + 1
                              /\ UNCHANGED <<pc, exitmsg>>
                         ELSE /\ pc' = h.pc
                              /\ exitmsg' = h.exitmsg
                              /\ ri' = IF h.pc = "exited" THEN ri ELSE ri + 1
                              /\ UNCHANGED stackids
    /\ UNCHANGED <<cfg, launches, self, ti, stackname, plan, genVars, cacheVars, cliVars, pollVars>>

\* The inner loop is over: the next test
StackCreateNextTest ==
    /\ pc = "stackcreate"
    /\ ri > Len(self.test_region)
    /\ ti' = ti + 1
    /\ ri' = 0
    /\ UNCHANGED <<cfg, launches, plan, pc, self, stackname, stackids, requests, exitmsg, rng, genVars, cacheVars, cliVars, pollVars>>

\* a stackcreate whose outer loop is left after its first test
LoopOverAfterFirst(test_list, i) == i > 1

\* `for test in test_list` is over: i counts the tests from 1
LoopOver(test_list, i) == i > Len(test_list)

\* stackcreate returns stackids
StackCreateReturn ==
    /\ pc = "stackcreate"
    /\ LoopOver(TestList(cfg), ti)
    /\ pc' = "launched"
    /\ UNCHANGED <<cfg, launches, plan, self, ti, ri, stackname, stackids, requests, exitmsg, rng, genVars, cacheVars, cliVars, pollVars>>

----------------------------------------------------------------------------
(* Polling: get_stackstatus and stackcheck *)

CreateInProgress == <<"CREATE", "IN", "PROGRESS">>
DeleteInProgress == <<"DELETE", "IN", "PROGRESS">>
UpdateInProgress == <<"UPDATE", "IN", "PROGRESS">>
RollbackInProgress == <<"ROLLBACK", "IN", "PROGRESS">>
ReviewInProgress == <<"REVIEW", "IN", "PROGRESS">>
CreateComplete == <<"CREATE", "COMPLETE">>
CreateFailed == <<"CREATE", "FAILED">>
DeleteFailed == <<"DELETE", "FAILED">>
UserDeleted == <<"USER", "DELETED">>

\* the StackStatus values the remote service answers with
StatusSet ==
    {CreateInProgress, DeleteInProgress, UpdateInProgress, RollbackInProgress,
     ReviewInProgress, CreateComplete, CreateFailed, DeleteFailed}

\* the status string contains "IN_PROGRESS"
ContainsInProgress(status) ==
    \E i \in 1..(Len(status) - 1) : status[i] = "IN" /\ status[i + 1] = "PROGRESS"

\* describe_stacks answers with a status or raises
Answer(status) == [raised |-> FALSE, status |-> status]
Raises == [raised |-> TRUE, status |-> <<>>]
NoDescribe == [raised |-> FALSE, status |-> <<>>]

AnswerSet == {Answer(st) : st \in StatusSet} \cup {Raises}
FinalAnswerSet ==
    {Answer(st) : st \in {x \in StatusSet : ~ContainsInProgress(x)}} \cup {Raises}

\* Active without its DELETE_IN_PROGRESS alternative
ActiveCreateOnly(status) == IF status = CreateInProgress THEN 1 ELSE 0

\* the active contribution for a StackStatus
Active(status) ==
    IF status = CreateInProgress \/ status = DeleteInProgress THEN 1 ELSE 0

\* stackcheck counting a stack whose describe call raised as active
stackcheckDeletedActive(stack_id, answer) ==
    IF answer.raised
    THEN <<stack_id.stack_name, stack_id.region, UserDeleted, 1>>
    ELSE <<stack_id.stack_name, stack_id.region, answer.status, Active(answer.status)>>

\* stackcheck(stack_id), the describe call answering `answer`:
\* <<stack_name, region, status, active>>
stackcheck(stack_id, answer) ==
    IF answer.raised
    THEN <<stack_id.stack_name, stack_id.region, UserDeleted, 0>>
    ELSE <<stack_id.stack_name, stack_id.region, answer.status, Active(answer.status)>>

\* the count of a pass taken from the stack visited last alone
AddActiveLast(query, current) == query[4]

\* `current_active_tests = stackquery[3] + current_active_tests`
AddActive(query, current) == query[4] + current

DescribeRequest(stack_id) ==
    [op |-> "describe_stacks", region |-> stack_id.region,
     StackName |-> stack_id.stack_name]

\* get_stackstatus(stackids, speed) is entered with what stackcreate returned
GetStackStatusBegin ==
    /\ pc = "launched"
    /\ pc' = "get_stackstatus"
    /\ active_tests' = 1
    /\ si' = 0
    /\ rounds' = 0
    /\ settle' \in 1..MaxSettle
    /\ terminal_at' = [k \in 1..Len(stackids) |-> 0]
    /\ UNCHANGED <<runVarsButPc, rng, genVars, cacheVars, cliVars, current_active_tests, stackquery,
                   described, roundlog>>

\* `while (active_tests > 0)` holds: a pass begins, and with no stack to
\* visit it is over at once
PollRound ==
    /\ pc = "get_stackstatus"
    /\ si = 0
    /\ active_tests > 0
    /\ rounds < MaxRounds
    /\ rounds' = rounds + 1
    /\ current_active_tests' = 0
    /\ si' = IF stackids = <<>> THEN 0 ELSE 1
    /\ roundlog' = <<>>
    /\ UNCHANGED <<runVars, rng, genVars, cacheVars, cliVars, active_tests, settle, stackquery, described,
                   terminal_at>>

\* The body of `for stack in stackids`
PollStack ==
    /\ pc = "get_stackstatus"
    /\ si >= 1
    /\ \E answer \in (IF rounds >= settle THEN FinalAnswerSet ELSE AnswerSet) :
          /\ described' = answer
          /\ stackquery' = stackcheck(stackids[si].StackId, answer)
    /\ requests' = Append(requests, DescribeRequest(stackids[si].StackId))
    /\ roundlog' = Append(roundlog, [raised |-> described'.raised,
                                     in_flight |-> stackquery'[3] \in
                                         {CreateInProgress, DeleteInProgress},
                                     active |-> stackquery'[4]])
    /\ terminal_at' = IF stackquery'[4] = 0 /\ terminal_at[si] = 0
                      THEN [terminal_at EXCEPT ![si] = rounds]
                      ELSE terminal_at
    /\ current_active_tests' = AddActive(stackquery', current_active_tests)
    /\ active_tests' = current_active_tests'
    /\ si' = IF si < Len(stackids) THEN si + 1 ELSE 0
    /\ UNCHANGED <<cfg, launches, plan, pc, self, ti, ri, stackname, stackids, exitmsg, rng, genVars, cacheVars, cliVars,
                   rounds, settle>>

\* `while (active_tests > 0)` fails: get_stackstatus returns
GetStackStatusReturn ==
    /\ pc = "get_stackstatus"
    /\ si = 0
    /\ active_tests <= 0
    /\ pc' = "done"
    /\ UNCHANGED <<runVarsButPc, rng, genVars, cacheVars, cliVars, pollVars>>

----------------------------------------------------------------------------
(* validate_yaml *)

\* required_global_keys, in the order they are checked
RequiredGlobalKeys == <<"s3bucket", "project", "owner", "reporting", "regions">>
\* required_test_parameters
RequiredTestParameters == <<"template_file", "parameter_input">>
\* the keys a test's mapping may hold
TestKeys == {"template_file", "parameter_input", "regions"}

\* The value of a test in the file: a mapping with some keys, or nothing
\* (None)
TestValues ==
    {[null |-> FALSE, keys |-> k] : k \in SUBSET TestKeys}
        \cup {[null |-> TRUE, keys |-> {}]}

RECURSIVE SeqsUpTo(_, _)
SeqsUpTo(S, n) ==
    IF n = 0 THEN {<<>>}
    ELSE SeqsUpTo(S, n - 1)
            \cup {Append(q, x) : q \in {r \in SeqsUpTo(S, n - 1) : Len(r) = n - 1},
                                 x \in S}

\* The file validate_yaml is given: whether it exists, whether yaml.load
\* accepts it, the keys of its global section, and its tests in the order of
\* keys(), named by their position
YamlSet ==
    [isfile : BOOLEAN, wellformed : BOOLEAN,
     global : SUBSET Elems(RequiredGlobalKeys),
     tests : SeqsUpTo(TestValues, MaxTests)]

NoYaml == [isfile |-> FALSE, wellformed |-> FALSE, global |-> {}, tests |-> <<>>]

\* sys.exit(status)
SysExit(status) == [kind |-> "exit", text |-> "status", arg |-> status]

TestName(i) == <<"t", i>>

\* the inner loops of validate_yaml for one test: for every key of the
\* test's mapping, every required parameter must be a key of it; keys() of
\* None raises AttributeError
TestRejected(v) ==
    \/ v.null
    \/ \E parms \in v.keys : \E key \in Elems(RequiredTestParameters) :
          key \notin v.keys

\* validate_yaml(yaml_file): sys.exit(1), or the names of the tests
validate_yaml(y) ==
    IF ~y.isfile
    THEN [exit |-> SysExit("1"), run_tests |-> <<>>]
    ELSE IF ~y.wellformed
    THEN [exit |-> SysExit("1"), run_tests |-> <<>>]
    ELSE IF \E i \in 1..Len(RequiredGlobalKeys) : RequiredGlobalKeys[i] \notin y.global
    THEN [exit |-> SysExit("1"), run_tests |-> <<>>]
    ELSE IF \E i \in 1..Len(y.tests) : TestRejected(y.tests[i])
    THEN [exit |-> SysExit("1"), run_tests |-> <<>>]
    ELSE [exit |-> NoExit, run_tests |-> [i \in 1..Len(y.tests) |-> TestName(i)]]

----------------------------------------------------------------------------
(* The command line: TaskCat.interface, TaskCat.__init__ and main of tcat.py *)

\* The options given on the command line.  -h is the help option that
\* argparse adds to every parser.
ArgSetCli ==
    [help : BOOLEAN, config_yml : BOOLEAN, boto_profile : BOOLEAN,
     aws_access_key : BOOLEAN, aws_secret_key : BOOLEAN,
     example_yaml : BOOLEAN, verbose : BOOLEAN]

NoArgv ==
    [help |-> FALSE, config_yml |-> FALSE, boto_profile |-> FALSE,
     aws_access_key |-> FALSE, aws_secret_key |-> FALSE,
     example_yaml |-> FALSE, verbose |-> FALSE]

\* parser.error(message): the message and usage are printed and the process
\* exits with status 2
ParserError(message) == [kind |-> "exit", text |-> message, arg |-> "2"]

\* `args.boto_profile is not None` together with a key
Conflicting(a) == a.boto_profile /\ (a.aws_access_key \/ a.aws_secret_key)

\* interface without its test for conflicting options
interfaceUnchecked(a) ==
    IF a.help THEN SysExit("0")
    ELSE IF a = NoArgv THEN SysExit("0")
    ELSE IF a.example_yaml THEN SysExit("0")
    ELSE NoExit

\* The property interface: parse_args (which serves -h itself), the exits
\* for an empty command line and for --example_yaml, then the test for
\* conflicting options; otherwise args is returned.
interface(a) ==
    IF a.help THEN SysExit("0")
    ELSE IF a = NoArgv THEN SysExit("0")
    ELSE IF a.example_yaml THEN SysExit("0")
    ELSE IF Conflicting(a)
         THEN ParserError("Cannot use boto profile -P (--boto_profile)")
    ELSE NoExit

\* tcat.py main: TaskCat('[TSKCAT] '), whose __init__ evaluates
\* self.interface
Construct ==
    /\ pc = "cli"
    /\ exitmsg' = interface(args)
    /\ pc' = IF interface(args) = NoExit THEN "constructed" ELSE "exited"
    /\ self' = NewTaskCat
    /\ UNCHANGED <<cfg, launches, ti, ri, stackname, stackids, requests, plan,
                   rng, genVars, cacheVars, cliVars, pollVars>>

\* tcat.py main: welcome, then `args = tcat_obj.interface()`: the property is
\* evaluated once more, returns as it did in __init__, and the Namespace it
\* returns is called, which raises TypeError
MainInterface ==
    /\ pc = "constructed"
    /\ pc' = "crashed"
    /\ exitmsg' = Uncaught("TypeError")
    /\ UNCHANGED <<cfg, launches, self, ti, ri, stackname, stackids, requests,
                   plan, rng, genVars, cacheVars, cliVars, pollVars>>

\* validate_yaml(yaml_file) is called
ValidateYaml ==
    /\ pc = "validate_yaml"
    /\ LET r == validate_yaml(yaml_file)
       IN  /\ exitmsg' = r.exit
           /\ run_tests' = r.run_tests
           /\ pc' = IF r.exit = NoExit THEN "yaml_valid" ELSE "exited"
    /\ UNCHANGED <<cfg, launches, self, ti, ri, stackname, stackids, requests,
                   plan, rng, genVars, cacheVars, yaml_file, args, pollVars>>

\* no configuration file and no command line are followed
CliUnused ==
    /\ yaml_file = NoYaml
    /\ run_tests = <<>>
    /\ args = NoArgv

----------------------------------------------------------------------------
(* ClientFactory (utils.py) *)

Threads == {"t1", "t2"}
Roles == {"default_role"}
Services == {"s3"}
SigVersions == {"default_sig_version", "s3v4"}

\* the access key of the credentials boto3 finds in the environment
EnvKey == "ENVKEY"

Creds(a, k, t) == [access_key |-> a, secret_key |-> k, session_token |-> t]
\* the credentials a caller passes to get: none, a key pair without a
\* session token, or one of two full sets
CredSet ==
    {Creds("None", "None", "None"), Creds("AK1", "SK1", "None"),
     Creds("AK1", "SK1", "TOK1"), Creds("AK2", "SK2", "TOK2")}

\* get(service, region, role, access_key, secret_key, session_token, s3v4)
ArgSet ==
    [service : Services, region : {West}, role : Roles, creds : CredSet,
     s3v4 : BOOLEAN]

NoSession == [id |-> 0, access_key |-> "None"]
NoClient == [id |-> 0, session |-> 0, service |-> "None", sig |-> "None"]
NoArgs == [service |-> "None", region |-> "None", role |-> "None",
           creds |-> Creds("None", "None", "None"), s3v4 |-> FALSE]

\* max_retries of _create_session and of _create_client
MaxRetries == 4

\* The cache dictionary, level by level: the roles that are keys of
\* _clients, the <<role, region>> that are keys below, the session stored
\* under 'session' there, the <<role, region, service>> that have a
\* dictionary, and the client stored for each signature version in it.
\* __init__: {"default_role": {}}
NewClients ==
    [roles |-> {"default_role"},
     regions |-> {},
     sessions |-> [k \in Roles \X {East, West} |-> NoSession],
     services |-> {},
     entries |-> [k \in Roles \X {East, West} \X Services \X SigVersions |-> NoClient]]

\* s3v4 = 's3v4' if s3v4 else 'default_sig_version'
SigOf(a) == IF a.s3v4 THEN "s3v4" ELSE "default_sig_version"
KeyOf(a) == <<a.role, a.region, a.service, SigOf(a)>>

\* self._clients[role][region][service][s3v4], or KeyError
Cached(c, a) ==
    IF /\ a.role \in c.roles
       /\ <<a.role, a.region>> \in c.regions
       /\ <<a.role, a.region, a.service>> \in c.services
       /\ c.entries[KeyOf(a)] # NoClient
    THEN c.entries[KeyOf(a)]
    ELSE NoClient

\* The try block of get: the cached client is returned unless none is cached
\* or an access key is given that differs from the cached session's.
LookupHit(c, a) ==
    /\ Cached(c, a) # NoClient
    /\ (a.creds.access_key # "None" =>
            c.sessions[<<a.role, a.region>>].access_key = a.creds.access_key)

\* The `except KeyError` block of get up to the session test: the missing
\* levels are created, and the service's dictionary is set to {} whenever the
\* service is not among the keys of _clients[role], which are regions.
PrepareLevels(c, a) ==
    LET rr == <<a.role, a.region>>
        rrs == <<a.role, a.region, a.service>>
        c1 == [c EXCEPT !.roles = @ \cup {a.role}]
        c2 == IF rr \notin c1.regions
              THEN [c1 EXCEPT !.regions = @ \cup {rr},
                              !.sessions[rr] = NoSession,
                              !.services = {x \in @ : <<x[1], x[2]>> # rr}]
              ELSE c1
        keys == {x[2] : x \in {y \in c2.regions : y[1] = a.role}}
    IN  IF a.service \notin keys
        THEN [c2 EXCEPT !.services = @ \cup {rrs},
                        !.entries = [k \in DOMAIN @ |->
                                        IF <<k[1], k[2], k[3]>> = rrs
                                        THEN NoClient ELSE @[k]]]
        ELSE c2

\* 'session' not in self._clients[role][region].keys()
SessionMissing(c, a) == c.sessions[<<a.role, a.region>>] = NoSession

\* The session boto3.session.Session builds in _create_session: with the
\* credentials given when all three are, with the environment's otherwise.
NewSession(id, a) ==
    [id |-> id,
     access_key |-> IF /\ a.creds.access_key # "None"
                       /\ a.creds.secret_key # "None"
                       /\ a.creds.session_token # "None"
                    THEN a.creds.access_key
                    ELSE EnvKey]

\* The client that the cached session builds in _create_client
NewClient(id, c, a) ==
    [id |-> id, session |-> c.sessions[<<a.role, a.region>>].id,
     service |-> a.service, sig |-> SigOf(a)]

\* sleep(5*(retry)), a backoff that grows linearly
BackoffLinear(retry) == 5 * retry

\* sleep(5*(retry**2))
Backoff(retry) == 5 * (retry * retry)

\* What a call did to construct its session and its client, in order: an
\* attempt of _create_session or of _create_client and whether it succeeded,
\* or a sleep and its seconds.
Attempt(op, ok) == [op |-> op, ok |-> ok, secs |-> 0]
Slept(secs) == [op |-> "sleep", ok |-> TRUE, secs |-> secs]

\* found and old_session are what the try block of get saw: the client cached
\* for the tuple and the session cached for the role and region
NoLocals == [retry |-> 0, session |-> NoSession, client |-> NoClient,
             sessions_built |-> 0, clients_built |-> 0, sleeps |-> <<>>,
             events |-> <<>>,
             found |-> NoClient, old_session |-> NoSession]

\* the record of a finished call
CallRecord(t, a, l, result, client) ==
    [thread |-> t, args |-> a, result |-> result, client |-> client,
     sessions_built |-> l.sessions_built, clients_built |-> l.clients_built,
     sleeps |-> l.sleeps, events |-> l.events, retry |-> l.retry,
     session |-> l.session,
     found |-> l.found, old_session |-> l.old_session]

\* the factory variables while the run of tcat is followed
CacheUnused ==
    /\ logger = FALSE
    /\ clients = NewClients
    /\ lock = "free"
    /\ made = 0
    /\ failures = 0
    /\ tpc = [t \in Threads |-> "idle"]
    /\ targs = [t \in Threads |-> NoArgs]
    /\ tloc = [t \in Threads |-> NoLocals]
    /\ budget = [t \in Threads |-> 0]
    /\ calllog = <<>>

\* a thread calls get
GetCall(t) ==
    /\ tpc[t] = "idle"
    /\ budget[t] > 0
    /\ budget' = [budget EXCEPT ![t] = @ - 1]
    /\ \E a \in ArgSet : targs' = [targs EXCEPT ![t] = a]
    /\ tloc' = [tloc EXCEPT ![t] = NoLocals]
    /\ tpc' = [tpc EXCEPT ![t] = "lookup"]
    /\ UNCHANGED <<logger, clients, lock, made, failures, calllog>>
    /\ UNCHANGED tcatVars

\* The try block of get.  self.logger.debug raises AttributeError when
\* __init__ was given no logger.
Lookup(t) ==
    /\ tpc[t] = "lookup"
    /\ IF ~logger
       THEN /\ calllog' = Append(calllog,
                  CallRecord(t, targs[t], tloc[t], "AttributeError", NoClient))
            /\ tpc' = [tpc EXCEPT ![t] = "idle"]
            /\ UNCHANGED tloc
       ELSE /\ tloc' = [tloc EXCEPT
                          ![t].found = Cached(clients, targs[t]),
                          ![t].old_session =
                              clients.sessions[<<targs[t].role, targs[t].region>>]]
            /\ IF LookupHit(clients, targs[t])
               THEN /\ calllog' = Append(calllog,
                          CallRecord(t, targs[t], tloc'[t], "returned",
                                     Cached(clients, targs[t])))
                    /\ tpc' = [tpc EXCEPT ![t] = "idle"]
               ELSE /\ tpc' = [tpc EXCEPT ![t] = "prepare"]
                    /\ UNCHANGED calllog
    /\ UNCHANGED <<logger, clients, lock, made, failures, targs, budget>>
    /\ UNCHANGED tcatVars

\* The `except KeyError` block of get, up to the session test
Prepare(t) ==
    /\ tpc[t] = "prepare"
    /\ clients' = PrepareLevels(clients, targs[t])
    /\ tpc' = [tpc EXCEPT ![t] = "check_session"]
    /\ UNCHANGED <<logger, lock, made, failures, targs, tloc, budget, calllog>>
    /\ UNCHANGED tcatVars

\* `if 'session' not in ...`: _create_session is entered or passed over
CheckSession(t) ==
    /\ tpc[t] = "check_session"
    /\ tpc' = [tpc EXCEPT ![t] = IF SessionMissing(clients, targs[t])
                                  THEN "session_lock" ELSE "client_lock"]
    /\ tloc' = [tloc EXCEPT ![t].retry = 0]
    /\ UNCHANGED <<logger, clients, lock, made, failures, targs, budget, calllog>>
    /\ UNCHANGED tcatVars

\* `with self._lock` in _create_session or _create_client
TakeLock(t) ==
    /\ tpc[t] \in {"session_lock", "client_lock"}
    /\ lock = "free"
    /\ lock' = t
    /\ tpc' = [tpc EXCEPT ![t] = IF @ = "session_lock"
                                  THEN "session_build" ELSE "client_build"]
    /\ UNCHANGED <<logger, clients, made, failures, targs, tloc, budget, calllog>>
    /\ UNCHANGED tcatVars

\* The construction raised: the lock is released, and the call sleeps and
\* tries again, or raises once retry reaches max_retries.
Retry(t, again) ==
    LET retry == tloc[t].retry + 1
        failed == Attempt(IF again = "session_lock" THEN "session" ELSE "client",
                          FALSE)
    IN  /\ failures < MaxFailures
        /\ failures' = failures + 1
        /\ lock' = "free"
        /\ IF retry >= MaxRetries
           THEN /\ tloc' = [tloc EXCEPT ![t].retry = retry,
                                        ![t].events = Append(@, failed)]
                /\ calllog' = Append(calllog,
                      CallRecord(t, targs[t], tloc'[t], "raised", NoClient))
                /\ tpc' = [tpc EXCEPT ![t] = "idle"]
           ELSE /\ tloc' = [tloc EXCEPT
                              ![t].retry = retry,
                              ![t].sleeps = Append(@, Backoff(retry)),
                              ![t].events = Append(Append(@, failed),
                                                   Slept(Backoff(retry)))]
                /\ tpc' = [tpc EXCEPT ![t] = again]
                /\ UNCHANGED calllog
        /\ UNCHANGED <<logger, clients, made, targs, budget>>

\* The body of `with self._lock` in _create_session
SessionBuild(t) ==
    /\ tpc[t] = "session_build"
    /\ \/ /\ made' = made + 1
          /\ tloc' = [tloc EXCEPT ![t].session = NewSession(made', targs[t]),
                                  ![t].sessions_built = @ + 1,
                                  ![t].events = Append(@, Attempt("session", TRUE))]
          /\ lock' = "free"
          /\ tpc' = [tpc EXCEPT ![t] = "session_store"]
          /\ UNCHANGED <<logger, clients, failures, targs, budget, calllog>>
       \/ Retry(t, "session_lock")
    /\ UNCHANGED tcatVars

\* self._clients[role][region]['session'] = the session returned
SessionStore(t) ==
    /\ tpc[t] = "session_store"
    /\ clients' = [clients EXCEPT
                      !.sessions[<<targs[t].role, targs[t].region>>] = tloc[t].session]
    /\ tloc' = [tloc EXCEPT ![t].retry = 0]
    /\ tpc' = [tpc EXCEPT ![t] = "client_lock"]
    /\ UNCHANGED <<logger, lock, made, failures, targs, budget, calllog>>
    /\ UNCHANGED tcatVars

\* The body of `with self._lock` in _create_client
ClientBuild(t) ==
    /\ tpc[t] = "client_build"
    /\ \/ /\ made' = made + 1
          /\ tloc' = [tloc EXCEPT ![t].client = NewClient(made', clients, targs[t]),
                                  ![t].clients_built = @ + 1,
                                  ![t].events = Append(@, Attempt("client", TRUE))]
          /\ lock' = "free"
          /\ tpc' = [tpc EXCEPT ![t] = "client_store"]
          /\ UNCHANGED <<logger, clients, failures, targs, budget, calllog>>
       \/ Retry(t, "client_lock")
    /\ UNCHANGED tcatVars

\* self._clients[role][region][service][s3v4] = the client returned
ClientStore(t) ==
    /\ tpc[t] = "client_store"
    /\ clients' = [clients EXCEPT !.entries[KeyOf(targs[t])] = tloc[t].client]
    /\ tpc' = [tpc EXCEPT ![t] = "return"]
    /\ UNCHANGED <<logger, lock, made, failures, targs, tloc, budget, calllog>>
    /\ UNCHANGED tcatVars

\* return self._clients[role][region][service][s3v4]
Return(t) ==
    /\ tpc[t] = "return"
    /\ LET c == Cached(clients, targs[t])
       IN  calllog' = Append(calllog,
              CallRecord(t, targs[t], tloc[t],
                         IF c = NoClient THEN "KeyError" ELSE "returned", c))
    /\ tpc' = [tpc EXCEPT ![t] = "idle"]
    /\ UNCHANGED <<logger, clients, lock, made, failures, targs, tloc, budget>>
    /\ UNCHANGED tcatVars

\* the variables of the run of tcat while something else is followed
RunQuiet ==
    /\ passlength = 0
    /\ genres = NoResult
    /\ rng = 0
    /\ cfg = Config(RegionsList(<<>>), 1, <<>>, <<>>)
    /\ self = NewTaskCat
    /\ ti = 0
    /\ ri = 0
    /\ stackname = <<>>
    /\ stackids = <<>>
    /\ requests = <<>>
    /\ exitmsg = NoExit
    /\ active_tests = 0
    /\ current_active_tests = 0
    /\ si = 0
    /\ rounds = 0
    /\ settle = 0
    /\ stackquery = <<>>
    /\ described = NoDescribe
    /\ roundlog = <<>>
    /\ terminal_at = <<>>
    /\ plan = <<>>
    /\ launches = 0

\* the variables of the run of tcat while a factory is followed
RunUnused ==
    /\ RunQuiet
    /\ pc = "factory"
    /\ CliUnused

\* ClientFactory(logger) or ClientFactory(), used by one thread
InitCache ==
    /\ RunUnused
    /\ logger \in BOOLEAN
    /\ clients = NewClients
    /\ lock = "free"
    /\ made = 0
    /\ failures = 0
    /\ tpc = [t \in Threads |-> "idle"]
    /\ targs = [t \in Threads |-> NoArgs]
    /\ tloc = [t \in Threads |-> NoLocals]
    /\ budget = [t \in Threads |-> IF t = "t1" THEN MaxCalls ELSE 0]
    /\ calllog = <<>>

NextCache ==
    \/ \E t \in Threads : GetCall(t)
    \/ \E t \in Threads : Lookup(t)
    \/ \E t \in Threads : Prepare(t)
    \/ \E t \in Threads : CheckSession(t)
    \/ \E t \in Threads : TakeLock(t)
    \/ \E t \in Threads : SessionBuild(t)
    \/ \E t \in Threads : SessionStore(t)
    \/ \E t \in Threads : ClientBuild(t)
    \/ \E t \in Threads : ClientStore(t)
    \/ \E t \in Threads : Return(t)

SpecCache == InitCache /\ [][NextCache]_vars

\* ClientFactory(logger) shared by the threads, each of which calls get once
InitCacheConc ==
    /\ RunUnused
    /\ logger = TRUE
    /\ clients = NewClients
    /\ lock = "free"
    /\ made = 0
    /\ failures = 0
    /\ tpc = [t \in Threads |-> "idle"]
    /\ targs = [t \in Threads |-> NoArgs]
    /\ tloc = [t \in Threads |-> NoLocals]
    /\ budget = [t \in Threads |-> 1]
    /\ calllog = <<>>

SpecCacheConc == InitCacheConc /\ [][NextCache]_vars

----------------------------------------------------------------------------
(* The run of tcat: Init, Next *)

Init ==
    /\ cfg \in ConfigSet
    /\ rng \in 0..(NumSeeds - 1)
    /\ pc = "main"
    /\ self = NewTaskCat
    /\ ti = 0
    /\ ri = 0
    /\ stackname = <<>>
    /\ stackids = <<>>
    /\ requests = <<>>
    /\ exitmsg = NoExit
    /\ passlength = 0
    /\ genres = NoResult
    /\ active_tests = 0
    /\ current_active_tests = 0
    /\ si = 0
    /\ rounds = 0
    /\ settle = 0
    /\ stackquery = <<>>
    /\ described = NoDescribe
    /\ roundlog = <<>>
    /\ terminal_at = <<>>
    /\ plan = <<>>
    /\ launches = 0
    /\ CacheUnused
    /\ CliUnused

Next ==
    \/ ValidateTemplateBegin
    \/ ValidateTemplateTest
    \/ ValidateTemplateReturn
    \/ ValidateParametersTest
    \/ ValidateParametersReturn
    \/ StackCreateBegin
    \/ StackCreateTest
    \/ StackCreateRegion
    \/ StackCreateNextTest
    \/ StackCreateReturn
    \/ GetStackStatusBegin
    \/ PollRound
    \/ PollStack
    \/ GetStackStatusReturn

Spec == Init /\ [][Next]_vars


\* stackcreate called one or more times on one TaskCat object
NextLaunch ==
    \/ StackCreateBegin
    \/ StackCreateTest
    \/ StackCreateRegion
    \/ StackCreateNextTest
    \/ StackCreateReturn
    \/ StackCreateAgain

SpecLaunch == Init /\ [][NextLaunch]_vars

\* validate_yaml on its own, for every file of YamlSet
InitYaml ==
    /\ RunQuiet
    /\ pc = "validate_yaml"
    /\ CacheUnused
    /\ yaml_file \in YamlSet
    /\ run_tests = <<>>
    /\ args = NoArgv

NextYaml == ValidateYaml

SpecYaml == InitYaml /\ [][NextYaml]_vars

\* tcat.py main, for every command line of ArgSetCli
InitCli ==
    /\ RunQuiet
    /\ pc = "cli"
    /\ CacheUnused
    /\ yaml_file = NoYaml
    /\ run_tests = <<>>
    /\ args \in ArgSetCli

NextCli ==
    \/ Construct
    \/ MainInterface

SpecCli == InitCli /\ [][NextCli]_vars

----------------------------------------------------------------------------
(* get_stackstatus on its own: every list of at most MaxStacks stacks *)

\* what create_stack answered for one test launched in the two regions
PollStackSet ==
    {StackData(r, <<Sig, Sprefix, "t1", "a1b2">>) : r \in {East, West}}

\* get_stackstatus(stackids, speed) after `active_tests = 1`; the stacks
\* answer a final status from a pass within those followed
InitPoll ==
    /\ passlength = 0
    /\ genres = NoResult
    /\ rng = 0
    /\ cfg = Config(RegionsList(<<>>), 1, <<>>, <<>>)
    /\ self = NewTaskCat
    /\ ti = 0
    /\ ri = 0
    /\ stackname = <<>>
    /\ stackids \in SeqsUpTo(PollStackSet, MaxStacks)
    /\ requests = <<>>
    /\ exitmsg = NoExit
    /\ pc = "get_stackstatus"
    /\ active_tests = 1
    /\ current_active_tests = 0
    /\ si = 0
    /\ rounds = 0
    /\ settle \in 1..MaxRounds
    /\ stackquery = <<>>
    /\ described = NoDescribe
    /\ roundlog = <<>>
    /\ terminal_at = [k \in 1..Len(stackids) |-> 0]
    /\ plan = <<>>
    /\ launches = 0
    /\ CliUnused
    /\ CacheUnused

NextPoll ==
    \/ PollRound
    \/ PollStack
    \/ GetStackStatusReturn

SpecPoll == InitPoll /\ [][NextPoll]_vars

----------------------------------------------------------------------------
(* genpassword on its own: every length from 0 to MaxPassLen *)

InitGen ==
    /\ passlength \in 0..MaxPassLen
    /\ genres = NoResult
    /\ rng \in 0..(NumSeeds - 1)
    /\ cfg = Config(RegionsList(<<>>), 1, <<>>, <<>>)
    /\ pc = "genpassword"
    /\ self = NewTaskCat
    /\ ti = 0
    /\ ri = 0
    /\ stackname = <<>>
    /\ stackids = <<>>
    /\ requests = <<>>
    /\ exitmsg = NoExit
    /\ active_tests = 0
    /\ current_active_tests = 0
    /\ si = 0
    /\ rounds = 0
    /\ settle = 0
    /\ stackquery = <<>>
    /\ described = NoDescribe
    /\ roundlog = <<>>
    /\ terminal_at = <<>>
    /\ plan = <<>>
    /\ launches = 0
    /\ CacheUnused
    /\ CliUnused

\* genpassword(passlength) is called
GenPassword ==
    /\ pc = "genpassword"
    /\ genres' = genpassword(passlength, rng)
    /\ rng' = rng + 1
    /\ pc' = "generated"
    /\ UNCHANGED <<passlength, runVarsButPc, pollVars, cacheVars, cliVars>>

NextGen == GenPassword

SpecGen == InitGen /\ [][NextGen]_vars


----------------------------------------------------------------------------
(* What the claims are stated with *)

CreateIdx == {i \in 1..Len(requests) : requests[i].op = "create_stack"}

\* the entries of the parameter file of the test a create_stack request is for
RequestDoc(q) == cfg.docs[TestNamed(cfg, q.StackName[3]).parameter_input].entries

\* the length a token asks for: the digits of the leftmost match
TokenLen(v) ==
    LET ms == TokenMatches(v)
        m == CHOOSE x \in ms : \A y \in ms : x[1] <= y[1]
    IN  DecimalValue(SubSeq(v, m[2] + 9, m[2] + 8 + m[3]))

\* one launch record for every region of every test begun, in order
RECURSIVE ExpectedRecords(_)
ExpectedRecords(p) ==
    IF p = <<>>
    THEN <<>>
    ELSE LET n == Len(p)
         IN  ExpectedRecords(SubSeq(p, 1, n - 1)) \o
             [k \in 1..Len(p[n].regions) |->
                 [StackId |-> [region |-> p[n].regions[k],
                               stack_name |-> p[n].stackname]]]

Polling == pc \in {"get_stackstatus", "done"}

----------------------------------------------------------------------------
(* C1..C10 *)

\* C1: every parameter whose value holds a generation token $[<name>_genpass_<L>]
\* is submitted to create_stack with a value of exactly L characters, all
\* alphanumeric and pairwise distinct, under the same ParameterKey.
C1_TokenValueHasRequestedLength ==
    \A i \in CreateIdx :
        LET q == requests[i]
            doc == RequestDoc(q)
        IN  \A k \in 1..Len(doc) :
                TokenSearch(doc[k].ParameterValue) =>
                    /\ k <= Len(q.Parameters)
                    /\ q.Parameters[k].ParameterKey = doc[k].ParameterKey
                    /\ Len(q.Parameters[k].ParameterValue) = TokenLen(doc[k].ParameterValue)
                    /\ Elems(q.Parameters[k].ParameterValue) \subseteq Alphanumeric
                    /\ Distinct(q.Parameters[k].ParameterValue)

\* C2: genpassword(L) returns L characters for every 1 <= L <= 62, and it
\* fails for the lengths above 62 and for no other length.
C2_EveryLengthUpTo62 ==
    pc = "generated" =>
        /\ passlength \in 1..62 =>
              ~genres.raised /\ Len(genres.value) = passlength
        /\ genres.raised <=> passlength > 62

\* C3: the parameters submitted to create_stack are as many as the entries of
\* the fetched document, in the same order of keys, and every entry whose
\* value holds no generation token is submitted as it was fetched.
C3_NonTokenEntriesUnchanged ==
    \A i \in CreateIdx :
        LET q == requests[i]
            doc == RequestDoc(q)
        IN  /\ Len(q.Parameters) = Len(doc)
            /\ \A k \in 1..Len(doc) :
                  /\ q.Parameters[k].ParameterKey = doc[k].ParameterKey
                  /\ ~TokenSearch(doc[k].ParameterValue) => q.Parameters[k] = doc[k]

\* a request whose document holds an entry with a token, which was replaced,
\* and an entry without
C3_Witness ==
    \E i \in CreateIdx :
        LET q == requests[i]
            doc == RequestDoc(q)
        IN  \E k, l \in 1..Len(doc) :
                /\ TokenSearch(doc[k].ParameterValue)
                /\ q.Parameters[k] # doc[k]
                /\ ~TokenSearch(doc[l].ParameterValue)

\* C4 as claimed: stackcheck returns the active contribution 1 for exactly the
\* statuses that contain IN_PROGRESS.
C4_EveryInProgressIsActive ==
    (stackquery # <<>> /\ ~described.raised) =>
        (stackquery[4] = 1 <=> ContainsInProgress(described.status))

\* C4 as amended: stackcheck returns the status it was answered and the active
\* contribution 1 for CREATE_IN_PROGRESS and DELETE_IN_PROGRESS, 0 for every
\* other status.
C4_CreateAndDeleteInProgressAreActive ==
    (stackquery # <<>> /\ ~described.raised) =>
        /\ stackquery[3] = described.status
        /\ stackquery[4] =
              IF described.status \in {CreateInProgress, DeleteInProgress} THEN 1 ELSE 0

C4_Witness ==
    /\ stackquery # <<>>
    /\ described = Answer(DeleteInProgress)
    /\ stackquery[4] = 1

\* C5: a stack whose describe call raises is reported USER_DELETED with the
\* active contribution 0, get_stackstatus goes on, and every pass visits all
\* the stacks, those after the one that raised included.
C5_VanishedStackIsTerminal ==
    /\ (stackquery # <<>> /\ described.raised) =>
          /\ stackquery[3] = UserDeleted
          /\ stackquery[4] = 0
          /\ Polling
          /\ exitmsg = NoExit
    /\ \A k \in 1..Len(roundlog) : roundlog[k].raised => roundlog[k].active = 0
    /\ (pc = "get_stackstatus" /\ si # 0) => Len(roundlog) = si - 1
    /\ (Polling /\ si = 0 /\ rounds >= 1) => Len(roundlog) = Len(stackids)

\* a stack was polled after the describe call of another raised in the same pass
C5_Witness ==
    /\ pc = "get_stackstatus"
    /\ \E k \in 1..(Len(roundlog) - 1) : roundlog[k].raised

\* C6: when every stack answers a final status from its settle-th describe
\* call on, get_stackstatus begins at most settle passes, and returns with no
\* stack counted active.
C6_ConvergesWithinSettle ==
    Polling =>
        /\ rounds <= settle
        /\ pc = "done" => \A k \in 1..Len(roundlog) : roundlog[k].active = 0

C8_LaunchFailureIsFatal ==
    /\ \A i \in 1..Len(requests) :
          /\ requests[i].op \in {"validate_template", "create_stack", "describe_stacks"}
          /\ (requests[i].op = "create_stack" /\ ~requests[i].ok) =>
                /\ i = Len(requests)
                /\ pc = "exited"
                /\ exitmsg = Fatal("Cannot launch",
                                   TestNamed(cfg, requests[i].StackName[3]).template_file)
    /\ exitmsg.text = "Cannot launch" => pc = "exited"

\* a submission failed with a stack already launched and a test still to come
C8_Witness ==
    /\ pc = "exited"
    /\ requests # <<>>
    /\ requests[Len(requests)].op = "create_stack"
    /\ ~requests[Len(requests)].ok
    /\ Len(stackids) >= 1
    /\ ti < Len(TestList(cfg))

\* C9: a validate_template request that fails is the last request of the run:
\* the run has left through sys.exit at that test, no later test is validated
\* and no create_stack request is made.
C9_ValidationFailureIsFatal ==
    \A i \in 1..Len(requests) :
        (requests[i].op = "validate_template" /\ ~requests[i].ok) =>
            /\ i = Len(requests)
            /\ pc = "exited"
            /\ exitmsg = Fatal("Cannot validate",
                               TestNamed(cfg, TestList(cfg)[ti]).template_file)
            /\ requests[i].TemplateURL =
                  get_s3_url(TestNamed(cfg, TestList(cfg)[ti]).template_file)
            /\ CreateIdx = {}

\* the validation of a test failed with a test still to come
C9_Witness ==
    /\ pc = "exited"
    /\ requests # <<>>
    /\ requests[Len(requests)].op = "validate_template"
    /\ ~requests[Len(requests)].ok
    /\ ti < Len(TestList(cfg))

\* C10: of two get calls a thread makes one after the other with the same
\* role, region, service, signature flag and credentials, the first having
\* returned a client, the second returns that same client and constructs
\* neither a session nor a client.
C10_SecondIdenticalGetIsServedFromCache ==
    \A i \in 1..(Len(calllog) - 1) :
        (/\ calllog[i].args = calllog[i + 1].args
         /\ calllog[i].result = "returned") =>
            /\ calllog[i + 1].result = "returned"
            /\ calllog[i + 1].client = calllog[i].client
            /\ calllog[i + 1].sessions_built = 0
            /\ calllog[i + 1].clients_built = 0

\* C11: a get call for a cached tuple that passes an access key other than
\* the cached session's, and returns, has constructed one session, that
\* session holds the access key passed and is the one now cached for the role
\* and region in place of the old one, and the client returned was built from
\* it.
C11_ChangedAccessKeyRebuildsSession ==
    \A i \in 1..Len(calllog) :
        LET r == calllog[i]
        IN  (/\ r.result = "returned"
             /\ r.found # NoClient
             /\ r.args.creds.access_key # "None"
             /\ r.old_session.access_key # r.args.creds.access_key) =>
                /\ r.sessions_built = 1
                /\ r.session.id # r.old_session.id
                /\ r.session.access_key = r.args.creds.access_key
                /\ r.client.session = r.session.id

\* the attempts of one construction among the first j events of a call, and
\* those of them that failed
AttemptsUpTo(e, op, j) == {x \in 1..j : e[x].op = op}
FailuresUpTo(e, op, j) == {x \in AttemptsUpTo(e, op, j) : ~e[x].ok}

\* The retry discipline on the events of a call that is under way (ended =
\* FALSE) or has ended with `result`
RetryDiscipline(e, ended, result) ==
    /\ \A op \in {"session", "client"} :
          Cardinality(AttemptsUpTo(e, op, Len(e))) <= 4
    /\ \A j \in 1..Len(e) :
          LET k == Cardinality(FailuresUpTo(e, e[j].op, j))
          IN  /\ (e[j].op # "sleep" /\ ~e[j].ok /\ k <= 3) =>
                    /\ j < Len(e)
                    /\ e[j + 1] = Slept(<<5, 20, 45>>[k])
                    /\ (j + 1 < Len(e) => e[j + 2].op = e[j].op)
              /\ (e[j].op # "sleep" /\ ~e[j].ok /\ k > 3) =>
                    /\ k = 4
                    /\ j = Len(e)
                    /\ ended
                    /\ result = "raised"
              /\ (e[j].op # "sleep" /\ e[j].ok) =>
                    /\ AttemptsUpTo(e, e[j].op, Len(e)) \subseteq 1..j
                    /\ (j < Len(e) => e[j + 1].op # "sleep")
              /\ (e[j].op = "sleep") =>
                    /\ j > 1
                    /\ e[j - 1].op # "sleep"
                    /\ ~e[j - 1].ok
    /\ (ended /\ result = "raised") =>
          /\ e # <<>>
          /\ e[Len(e)].op # "sleep"
          /\ ~e[Len(e)].ok

\* C12: a construction of a session or of a client is attempted at most 4
\* times in a call; its 1st, 2nd and 3rd failure is followed by a sleep of 5,
\* 20 and 45 seconds and then by another attempt; its 4th failure is the last
\* thing the call does, and the call raises; after a success the construction
\* is not attempted again and no sleep follows.  This is stated of every call
\* under way and of the call that ended last, which every call of calllog
\* once was.
C12_RetriesAndBackoff ==
    /\ \A t \in Threads :
          tpc[t] # "idle" => RetryDiscipline(tloc[t].events, FALSE, "none")
    /\ calllog # <<>> =>
          RetryDiscipline(calllog[Len(calllog)].events, TRUE,
                          calllog[Len(calllog)].result)

\* a call raised after four failures of one construction and three sleeps
C12_Witness ==
    \E i \in 1..Len(calllog) :
        /\ calllog[i].result = "raised"
        /\ Len(calllog[i].events) = 7
        /\ calllog[i].events[6] = Slept(45)
        /\ ~calllog[i].events[7].ok

\* where a call is when its next step reads or writes self._clients: the
\* lookup, the creation of the levels, the session test, the storing of the
\* session, the reading of the session by _create_client, the storing of the
\* client, the reading of the client returned
CacheAccessPcs ==
    {"lookup", "prepare", "check_session", "session_store", "client_build",
     "client_store", "return"}

\* C13: every step of get that reads or writes the cache dictionary is taken
\* by a thread that holds the factory's lock.
C13_CacheAccessedUnderLock ==
    [][\A t \in Threads :
          (tpc[t] \in CacheAccessPcs /\ tpc'[t] # tpc[t]) => lock = t]_vars

\* the calls of calllog that no construction failure disturbed
Undisturbed(r) == \A j \in 1..Len(r.events) : r.events[j].ok

\* C14: when the two threads have called get with the same arguments, both
\* finding the tuple uncached and no construction failing, one session and
\* one client were constructed in all, and both calls returned the same
\* client.
C14_ConcurrentMissBuildsOnce ==
    (/\ Len(calllog) = 2
     /\ calllog[1].thread # calllog[2].thread
     /\ calllog[1].args = calllog[2].args
     /\ calllog[1].found = NoClient
     /\ calllog[2].found = NoClient
     /\ Undisturbed(calllog[1])
     /\ Undisturbed(calllog[2])) =>
        /\ calllog[1].sessions_built + calllog[2].sessions_built <= 1
        /\ calllog[1].clients_built + calllog[2].clients_built <= 1
        /\ calllog[1].result = "returned"
        /\ calllog[2].result = "returned"
        /\ calllog[1].client = calllog[2].client

\* C15: two create_stack requests made by different stackcreate calls for
\* the same test (and prefix) in the same region carry different stack names.
C15_NamesDifferAcrossLaunches ==
    \A a \in CreateIdx : \A b \in CreateIdx :
        (/\ requests[a].launch # requests[b].launch
         /\ requests[a].region = requests[b].region
         /\ requests[a].StackName[2] = requests[b].StackName[2]
         /\ requests[a].StackName[3] = requests[b].StackName[3]) =>
            requests[a].StackName # requests[b].StackName

\* C20: every create_stack request has DisableRollback = True and
\* CAPABILITY_IAM among its capabilities, in the first stackcreate call on the
\* object and in every later one.
C20_RollbackDisabledAndIamCapability ==
    \A i \in CreateIdx :
        /\ requests[i].DisableRollback = TRUE
        /\ "CAPABILITY_IAM" \in Elems(requests[i].Capabilities)

\* a create_stack request of the second stackcreate call on the object
C20_Witness ==
    \E i \in CreateIdx :
        /\ requests[i].launch = 2
        /\ Len(requests[i].Capabilities) = 2

\* the region list the configuration gives a test: its own when it has a
\* non-null one, the global one otherwise
ConfiguredRegions(c, test) ==
    LET t == TestNamed(c, test)
    IN  IF t.regions.present /\ ~t.regions.null
        THEN t.regions.list
        ELSE c.global.regions.list

\* C16: after define_tests for a test, get_test_region is the test's own
\* region list when it has a non-null one and the global region list
\* otherwise, whatever tests were defined before it.
C16_ResolvedRegions ==
    \A i \in 1..Len(plan) :
        plan[i].regions = ConfiguredRegions(cfg, plan[i].test)

\* C17: once stackcreate has reached a test that has no region list of its
\* own while the global section gives no region (an empty or a null list),
\* the run has ended with a non-zero exit status, by sys.exit or by an
\* exception.
C17_NoRegionsIsAnError ==
    \A i \in 1..Len(plan) :
        (/\ ~TestNamed(cfg, plan[i].test).regions.present
         /\ cfg.global.regions.list = <<>>) =>
            pc \in {"exited", "crashed"}

\* the file exists, parses, and holds every required key
YamlComplete(y) ==
    /\ y.isfile
    /\ y.wellformed
    /\ Elems(RequiredGlobalKeys) \subseteq y.global
    /\ \A i \in 1..Len(y.tests) :
          /\ ~y.tests[i].null
          /\ Elems(RequiredTestParameters) \subseteq y.tests[i].keys

\* C18: validate_yaml returns the names of the tests when the file holds
\* every required global key and every test holds template_file and
\* parameter_input, and exits with a non-zero status otherwise, a test with
\* an empty mapping included.
C18_ValidateYamlRejectsIncomplete ==
    pc # "validate_yaml" =>
        IF YamlComplete(yaml_file)
        THEN /\ pc = "yaml_valid"
             /\ run_tests = [i \in 1..Len(yaml_file.tests) |-> TestName(i)]
        ELSE /\ pc = "exited"
             /\ exitmsg = SysExit("1")

\* C19 as stated: with a profile and an access key or a secret key on the
\* command line, the process has exited with the parser's error and a
\* non-zero status as soon as the TaskCat object is constructed, and has made
\* no request.
C19_ConflictExitsNonZero ==
    (Conflicting(args) /\ pc # "cli") =>
        /\ pc = "exited"
        /\ exitmsg = ParserError("Cannot use boto profile -P (--boto_profile)")
        /\ requests = <<>>

\* C19: with a profile and an access key or a secret key on the command
\* line, and neither -h nor --example_yaml, the process has exited with the
\* parser's error and a non-zero status as soon as the TaskCat object is
\* constructed, and has made no request; with -h or --example_yaml it has
\* exited with status 0, also without a request.
C19_ConflictExitsNonZeroUnlessHelp ==
    (Conflicting(args) /\ pc # "cli") =>
        /\ pc = "exited"
        /\ requests = <<>>
        /\ exitmsg = IF args.help \/ args.example_yaml
                     THEN SysExit("0")
                     ELSE ParserError("Cannot use boto profile -P (--boto_profile)")

\* a profile and a secret key without an access key: the parser's error
C19_Witness ==
    /\ args.boto_profile
    /\ args.aws_secret_key
    /\ ~args.aws_access_key
    /\ ~args.help
    /\ ~args.example_yaml
    /\ pc = "exited"
    /\ exitmsg.arg = "2"

----------------------------------------------------------------------------
(* C21..C29 *)

\* C21: a get call on a factory constructed without a logger, none of whose
\* constructions failed, returns a client; it does not fail on the logger the
\* constructor left unset.
C21_FactoryWithoutLoggerServesGet ==
    ~logger =>
        \A i \in 1..Len(calllog) :
            Undisturbed(calllog[i]) =>
                /\ calllog[i].result = "returned"
                /\ calllog[i].client # NoClient

\* the stacks visited in the pass in progress that an earlier pass of the same
\* get_stackstatus call has classified as terminal
SeenTerminalBefore ==
    {k \in 1..Len(roundlog) : terminal_at[k] # 0 /\ terminal_at[k] < rounds}

\* C22: a stack that a pass of get_stackstatus has classified as terminal
\* (active contribution 0, USER_DELETED included) is not classified as in
\* flight by a later pass of the same call, and adds nothing to its count.
C22_TerminalIsAbsorbing ==
    Polling => \A k \in SeenTerminalBefore : roundlog[k].active = 0

\* C23: no describe call is made in a pass for a stack that an earlier pass of
\* the same get_stackstatus call has observed terminal.
C23_NoDescribeAfterTerminal ==
    Polling => SeenTerminalBefore = {}

\* C24: get_stackstatus returns only after a pass that visited every stack of
\* stackids and observed none of them, in any position, as CREATE_IN_PROGRESS
\* or DELETE_IN_PROGRESS.
C24_ReturnsAfterAllTerminalPass ==
    pc = "done" =>
        /\ rounds >= 1
        /\ Len(roundlog) = Len(stackids)
        /\ \A k \in 1..Len(roundlog) : ~roundlog[k].in_flight

\* get_stackstatus returned after a second pass over two stacks or more, the
\* first of which was in flight in the first pass
C24_Witness ==
    /\ pc = "done"
    /\ rounds >= 2
    /\ Len(stackids) >= 2
    /\ terminal_at[1] = 2
    /\ terminal_at[Len(stackids)] = 1
    /\ Len(roundlog) = Len(stackids)

\* C25: get_stackstatus called with no stack begins no pass of its while loop
\* that leaves it waiting: with stackids empty it has returned, or is about to,
\* having made no describe call.
C25_EmptySetReturns ==
    (pc = "get_stackstatus" /\ stackids = <<>>) => (rounds = 0 \/ active_tests <= 0)

\* C26: a step of a get call leaves the client cached for every tuple other
\* than the tuples of the calls under way as it is: it neither removes nor
\* replaces it.
C26_GetLeavesOtherTuplesCached ==
    [][\A k \in DOMAIN clients.entries :
          (/\ clients.entries[k] # NoClient
           /\ \A t \in Threads : tpc[t] # "idle" => KeyOf(targs[t]) # k) =>
              clients'.entries[k] = clients.entries[k]]_vars

DescribeIdx == {i \in 1..Len(requests) : requests[i].op = "describe_stacks"}

\* C27: when a describe_stacks request is made, stackcreate has begun every
\* test of the list, and for every test and every region resolved for it a
\* create_stack request for the test's stack in that region was made, and
\* accepted, before it; no create_stack request follows a describe_stacks
\* request.
C27_LaunchPrecedesPolling ==
    \A d \in DescribeIdx :
        /\ \A c \in CreateIdx : c < d
        /\ [i \in 1..Len(plan) |-> plan[i].test] = TestList(cfg)
        /\ \A i \in 1..Len(plan) : \A k \in 1..Len(plan[i].regions) :
              \E c \in CreateIdx :
                  /\ c < d
                  /\ requests[c].ok
                  /\ requests[c].StackName = plan[i].stackname
                  /\ requests[c].region = plan[i].regions[k]

\* a stack is described after two tests were launched, in three regions or
\* more in all
C27_Witness ==
    /\ DescribeIdx # {}
    /\ Len(plan) = 2
    /\ Cardinality(CreateIdx) >= 3

\* the values submitted in place of a token by request i: <<request, entry>>
GeneratedIn(i) ==
    {<<i, k>> : k \in {n \in 1..Len(RequestDoc(requests[i])) :
                         TokenSearch(RequestDoc(requests[i])[n].ParameterValue)}}

\* C28: no create_stack request carries a parameter value in which the token
\* pattern is still found, and the values put in place of tokens are drawn
\* anew for every request: the generator advancing with every draw, no two of
\* them, in one request or in the requests of two regions or tests, are the
\* same draw.  This is stated of the create_stack request made last, which
\* every create_stack request once was, against itself and those before it.
C28_NoRawTokenSubmitted ==
    (requests # <<>> /\ requests[Len(requests)].op = "create_stack") =>
        LET n == Len(requests)
            last == GeneratedIn(n)
        IN  /\ \A k \in 1..Len(requests[n].Parameters) :
                  ~TokenSearch(requests[n].Parameters[k].ParameterValue)
            /\ \A i \in CreateIdx : \A x \in GeneratedIn(i) : \A y \in last :
                  x # y =>
                      requests[x[1]].Parameters[x[2]].ParameterValue #
                      requests[y[1]].Parameters[y[2]].ParameterValue

\* the requests of one test for two regions, whose document holds a token
\* inside a longer value
C28_Witness ==
    \E i \in CreateIdx : \E j \in CreateIdx :
        /\ i < j
        /\ requests[i].StackName = requests[j].StackName
        /\ requests[i].region # requests[j].region
        /\ \E k \in 1..Len(RequestDoc(requests[j])) :
              RequestDoc(requests[j])[k].ParameterValue = TokenInside5

\* C29: when the get call that ended last raised because a construction failed
\* four times, no client is cached for its tuple and the client an earlier
\* call returned for another tuple is still the one cached for that tuple;
\* and a call that follows a raised call with the same arguments attempts a
\* construction.
C29_FailedGetLeavesCacheSound ==
    /\ (/\ calllog # <<>>
        /\ calllog[Len(calllog)].result = "raised"
        /\ \A t \in Threads : tpc[t] = "idle") =>
            LET n == Len(calllog)
            IN  /\ Cached(clients, calllog[n].args) = NoClient
                /\ \A j \in 1..(n - 1) :
                      (/\ calllog[j].result = "returned"
                       /\ KeyOf(calllog[j].args) # KeyOf(calllog[n].args)
                       /\ \A l \in (j + 1)..(n - 1) :
                             KeyOf(calllog[l].args) # KeyOf(calllog[j].args)) =>
                          Cached(clients, calllog[j].args) = calllog[j].client
    /\ \A i \in 1..(Len(calllog) - 1) :
          (/\ calllog[i].result = "raised"
           /\ calllog[i + 1].args = calllog[i].args) =>
              calllog[i + 1].events # <<>>

============================================================================
